---- MODULE Spec2Model ----
(***************************************************************************)
(* Model of bot.py: a Discord bot that polls a Minecraft host, assembles a *)
(* status snapshot, renders it and keeps one status message up to date.    *)
(*                                                                         *)
(* asyncio runs the coroutines on one thread, so every action below is one *)
(* atomic segment of a coroutine: from one await to the next.  A blocking  *)
(* call without an await inside (the socket probe, the RCON session) is    *)
(* part of the segment that makes it.                                      *)
(*                                                                         *)
(* Of the chat platform the state keeps which messages exist, in which     *)
(* order, and which coroutine sent each.  The text of a message is the     *)
(* text the publishing coroutine holds (tickMsg, cmdMsg) while its edit or *)
(* send is pending.                                                        *)
(*                                                                         *)
(* Spec and FairSpec are the bot as a whole.  ResolverSpec is the time     *)
(* resolver on its own, called against every RCON session and tick count   *)
(* of the model, with and without a credential.                            *)
(***************************************************************************)
EXTENDS Integers, Sequences, FiniteSets, TLC

\* ------------------------------------------------------------------ bounds
\* message ids the chat platform hands out in one run (1..MaxMsgs)
MaxMsgs == 2
\* how far below 0 and beyond a day's last tick the tick counts of the RCON
\* replies go
MaxOverrun == 2

\* --------------------------------------------------------------- constants
\* channel.history(limit=20)
HistoryLimit == 20

\* Python's None for a string-valued field, and an attribute a reply lacks
None == "<None>"
Missing == "<missing>"
\* status_message = None
NoMessage == 0

MC_VERSION == "Unknown"
HOST_IP == "10.0.0.5"
HOST_PORT == "22"

MC_ONLINE == "(green) Online"
MC_OFFLINE == "(red) Offline or Unreachable"

RCON_NOT_CONFIGURED == "(no) RCON not configured"
RCON_UNAVAILABLE == "(warn) RCON unavailable"

\* ------------------------------------------------------- the environment
\* replies of server.async_status(): status.players.online / .max
StatusReplies ==
    { [players |-> [present |-> TRUE, online |-> 1, max |-> 20]] }

\* replies of server.async_query(); an attribute the reply lacks is Missing
\* (players.present = FALSE: query.players is absent or None)
QueryReplies ==
    { [motd |-> "Welcome", players |-> [present |-> TRUE, list |-> <<"Alice">>],
       map_name |-> "world", software |-> [present |-> TRUE, gamemode |-> "Creative"]],
      [motd |-> "Welcome", players |-> [present |-> FALSE, list |-> <<>>],
       map_name |-> "world", software |-> [present |-> TRUE, gamemode |-> "Creative"]] }

\* the values of RCON_PASS the runs are started with
Credentials == {"secret"}

\* what an RCON session does: the connection is refused or times out, the
\* login is rejected, or "time query daytime" is answered; the answer's last
\* whitespace-delimited token is an integer (ticks) or not (numeric = FALSE
\* also stands for an answer without any token)
RconSessions ==
    { [kind |-> "refused", numeric |-> FALSE, ticks |-> 0],
      [kind |-> "rejected", numeric |-> FALSE, ticks |-> 0],
      [kind |-> "reply", numeric |-> FALSE, ticks |-> 0],
      [kind |-> "reply", numeric |-> TRUE, ticks |-> 7000] }

\* os.environ.get(name, default)
Getenv(value, default) == IF value = Missing THEN default ELSE value

\* the values of RCON_PASS with the variable unset, empty and set (line 19)
ResolverCredentials == { Getenv(v, "") : v \in {Missing, "", "secret"} }

\* the RCON sessions the time resolver is tried against on its own: the
\* failing ones, and an answer for every tick count from MaxOverrun below 0
\* to MaxOverrun beyond 24000
ResolverSessions ==
    { [kind |-> k, numeric |-> FALSE, ticks |-> 0] :
          k \in {"refused", "timeout", "rejected", "reply"} }
    \cup { [kind |-> "reply", numeric |-> TRUE, ticks |-> t] :
               t \in (0 - MaxOverrun)..(24000 + MaxOverrun) }

\* ---------------------------------------------------------- pure functions
\* str(n) for the numbers the status replies carry
Str(n) == CASE n = 0 -> "0" [] n = 1 -> "1" [] n = 20 -> "20" [] OTHER -> "n"

\* Python truthiness of an optional string: None and "" are falsy
Truthy(s) == s # None /\ s # ""

\* x or default
OrElse(s, default) == IF Truthy(s) THEN s ELSE default

\* getattr(obj, name, default) on an attribute that may be absent
GetAttr(attr, default) == IF attr = Missing THEN default ELSE attr

\* lines 55-58 raise: Client(), login(), run() or int() of the last token
RconFails(session) == session.kind # "reply" \/ ~session.numeric

\* the comparisons of lines 59-63 written with <= instead of <
get_time_of_day_via_rcon_UpperInclusive(password, session) ==
    IF password = "" THEN RCON_NOT_CONFIGURED
    ELSE IF RconFails(session) THEN RCON_UNAVAILABLE
    ELSE IF session.ticks <= 6000 THEN "Morning"
    ELSE IF session.ticks <= 12000 THEN "Midday"
    ELSE IF session.ticks <= 18000 THEN "Evening"
    ELSE "Night"

\* the function without lines 51-53: the session is opened with whatever
\* credential there is, and the server rejects an empty one
get_time_of_day_via_rcon_NoCredentialCheck(password, session) ==
    IF password = "" \/ RconFails(session) THEN RCON_UNAVAILABLE
    ELSE IF session.ticks < 6000 THEN "Morning"
    ELSE IF session.ticks < 12000 THEN "Midday"
    ELSE IF session.ticks < 18000 THEN "Evening"
    ELSE "Night"

get_time_of_day_via_rcon(password, session) ==
    IF password = "" THEN RCON_NOT_CONFIGURED
    ELSE IF RconFails(session) THEN RCON_UNAVAILABLE
    ELSE IF session.ticks < 6000 THEN "Morning"
    ELSE IF session.ticks < 12000 THEN "Midday"
    ELSE IF session.ticks < 18000 THEN "Evening"
    ELSE "Night"

\* whether get_time_of_day_via_rcon opens an RCON session at all
OpensRconSession(password) == password # ""

\* the locals of fetch_server_status before the query (lines 124-127)
DefaultSnapshot(host_is_up) ==
    [ host_is_up |-> host_is_up,
      mc_status |-> MC_OFFLINE,
      motd |-> None,
      time_label |-> None,
      game_mode |-> None,
      map_name |-> None,
      players |-> <<"None">>,
      player_list |-> <<>> ]

\* get_time_of_day_via_rcon without its except branch: the failure of the
\* RCON session raises at line 152 and ends the extraction there
Extract_RconFailureAborts(status, query, password, session) ==
    LET s0 == DefaultSnapshot(TRUE)
        s1 == [s0 EXCEPT !.mc_status = MC_ONLINE]
        s2 == [s1 EXCEPT !.motd = query.motd]
        s3 == [s2 EXCEPT !.players =
                  <<Str(status.players.online), "/", Str(status.players.max)>>]
        s4 == [s3 EXCEPT !.player_list = query.players.list]
        s5 == [s4 EXCEPT !.map_name = GetAttr(query.map_name, "Unknown")]
        s6 == [s5 EXCEPT !.game_mode = GetAttr(query.software.gamemode, "Survival")]
        s7 == [s6 EXCEPT !.time_label = get_time_of_day_via_rcon(password, session)]
    IN  IF query.motd = Missing THEN s1
        ELSE IF ~status.players.present THEN s2
        ELSE IF ~query.players.present THEN s3
        ELSE IF ~query.software.present THEN s5
        ELSE IF password # "" /\ RconFails(session) THEN s6
        ELSE s7

\* lines 146-152: the assignments run in order and stop at the first
\* attribute access that raises; what was assigned before it stays assigned
Extract(status, query, password, session) ==
    LET s0 == DefaultSnapshot(TRUE)
        s1 == [s0 EXCEPT !.mc_status = MC_ONLINE]
        s2 == [s1 EXCEPT !.motd = query.motd]
        s3 == [s2 EXCEPT !.players =
                  <<Str(status.players.online), "/", Str(status.players.max)>>]
        s4 == [s3 EXCEPT !.player_list = query.players.list]
        s5 == [s4 EXCEPT !.map_name = GetAttr(query.map_name, "Unknown")]
        s6 == [s5 EXCEPT !.game_mode = GetAttr(query.software.gamemode, "Survival")]
        s7 == [s6 EXCEPT !.time_label = get_time_of_day_via_rcon(password, session)]
    IN  IF query.motd = Missing THEN s1
        ELSE IF ~status.players.present THEN s2
        ELSE IF ~query.players.present THEN s3
        ELSE IF ~query.software.present THEN s5
        ELSE s7

\* whether the extraction reaches line 152
ReachesTimeQuery(status, query) ==
    /\ query.motd # Missing
    /\ status.players.present
    /\ query.players.present
    /\ query.software.present

\* the calls the extraction adds to the cycle's call log, and the failure
\* of the RCON session that line 68 logs
ExtractCalls(status, query, password, session) ==
    IF ReachesTimeQuery(status, query)
    THEN IF OpensRconSession(password)
         THEN <<"time", "rcon_session">> \o
                  (IF RconFails(session) THEN <<"rcon_failed">> ELSE <<>>)
         ELSE <<"time">>
    ELSE <<>>

\* mc_status.startswith(green circle): of the two values mc_status takes
\* only MC_ONLINE starts with it
StartsWithGreen(mc_status) == mc_status = MC_ONLINE

\* format_status without the test of line 95: the game-server block is
\* rendered in full whatever mc_status is
format_status_NoBranch(mc_status, players, player_list, motd, time_label, game_mode, map_name, host_is_up) ==
    LET motd1 == OrElse(motd, "Unknown")
        time1 == OrElse(time_label, "Unknown")
        mode1 == OrElse(game_mode, "Unknown")
        map1 == OrElse(map_name, "Unknown")
    IN  << <<"# **Server Stats**">>, <<"">>,
           <<"> **Minecraft Server**:">>, <<"> ", mc_status>>,
           <<"> Players: ">> \o players,
           <<"> Online Players: ">> \o
               (IF player_list # <<>> THEN player_list ELSE <<"(none)">>),
           <<"> MOTD: ", motd1>>,
           <<"> Time of Day: ", time1>>,
           <<"> Map: ", map1>>,
           <<"> Version: ", MC_VERSION>>,
           <<"> Game Mode: ", mode1>>,
           <<"">>, <<"> **Host Server**:">>,
           <<"> ", IF host_is_up THEN "(green) Online" ELSE "(red) Offline">>,
           <<"> Host IP: ", HOST_IP>>,
           <<"> Host Port: ", HOST_PORT>> >>

\* format_status: the text is the sequence of its lines, a line the
\* sequence of the pieces the f-string puts together
format_status(mc_status, players, player_list, motd, time_label, game_mode, map_name, host_is_up) ==
    LET motd1 == OrElse(motd, "Unknown")
        time1 == OrElse(time_label, "Unknown")
        mode1 == OrElse(game_mode, "Unknown")
        map1 == OrElse(map_name, "Unknown")
        head == << <<"# **Server Stats**">>, <<"">>,
                   <<"> **Minecraft Server**:">>, <<"> ", mc_status>> >>
        game == IF StartsWithGreen(mc_status)
                THEN << <<"> Players: ">> \o players,
                        <<"> Online Players: ">> \o
                            (IF player_list # <<>> THEN player_list ELSE <<"(none)">>),
                        <<"> MOTD: ", motd1>>,
                        <<"> Time of Day: ", time1>>,
                        <<"> Map: ", map1>>,
                        <<"> Version: ", MC_VERSION>>,
                        <<"> Game Mode: ", mode1>> >>
                ELSE << <<"> Version: ", MC_VERSION>> >>
        host == << <<"">>, <<"> **Host Server**:">>,
                   <<"> ", IF host_is_up THEN "(green) Online" ELSE "(red) Offline">>,
                   <<"> Host IP: ", HOST_IP>>,
                   <<"> Host Port: ", HOST_PORT>> >>
    IN  head \o game \o host

\* format_status(data["mc_status"], ..., data["host_is_up"])
Render(data) ==
    format_status(data.mc_status, data.players, data.player_list, data.motd,
                  data.time_label, data.game_mode, data.map_name, data.host_is_up)

\* the literals the bot publishes besides the template
Placeholder == << <<"# **Server Stats**">>, <<"">>, <<"*Initializing...*">> >>
Fallback == << <<"(red) Host down - Eggroll fell off the grid.">> >>
NoText == <<>>

\* ------------------------------------------------------------------- state
VARIABLES
    RCON_PASS,       \* the RCON credential read from the environment at import
    status_message,  \* the global handle: NoMessage or the id of a message
    channel,         \* the channel, oldest first: ids of the bot's messages, 0 for others'
    createdBy,       \* createdBy[id]: the coroutine that sent message id ("nobody": none)
    ready,           \* whether the gateway has delivered a ready event
    startPc,         \* start_bot: the await it is suspended at
    tickPc,          \* update_status and its loop: the await it is suspended at
    tickData,        \* update_status: data
    tickCalls,       \* the probes and queries made in the current tick, in order
    tickStatus,      \* fetch_server_status in the tick: status
    tickMsg,         \* update_status: the text handed to edit/send
    tickTarget,      \* the message object the pending edit was called on
    tickAttempts,    \* edit/send calls made in the current tick
    tickResult,      \* how the last tick failed, "none" if it did not
    cmdPc,           \* manual_status: the await it is suspended at
    cmdData,         \* manual_status: data
    cmdCalls,        \* the probes and queries made in the current command, in order
    cmdStatus,       \* fetch_server_status in the command: status
    cmdMsg,          \* manual_status: message
    priorRun,        \* whether the channel held a message of the bot at process start
    resolver         \* a call of get_time_of_day_via_rcon on its own: the session
                     \* it meets, whether it opened it, and the label it returned

vars == << RCON_PASS, status_message, channel, createdBy, ready,
           startPc, tickPc, tickData, tickCalls, tickStatus, tickMsg, tickTarget,
           tickAttempts, tickResult, cmdPc, cmdData, cmdCalls, cmdStatus, cmdMsg,
           priorRun, resolver >>

chatVars == << channel, createdBy >>
startVars == << ready, startPc >>
tickLocals == << tickData, tickCalls, tickStatus, tickMsg, tickTarget, tickAttempts,
                 tickResult >>
cmdVars == << cmdPc, cmdData, cmdCalls, cmdStatus, cmdMsg >>

\* the ids of the messages sent in this run, and of the bot's message of an
\* earlier run
NewIds == 1..MaxMsgs
PriorMsg == MaxMsgs + 1
MsgIds == 1..(MaxMsgs + 1)
NoData == DefaultSnapshot(FALSE)
NoStatus == [players |-> [present |-> FALSE, online |-> 0, max |-> 0]]

\* n messages of other users
Others(n) == [i \in 1..n |-> 0]

\* the id the platform gives the next message sent
FreeIds == { i \in NewIds : createdBy[i] = "nobody" }
NextId == CHOOSE i \in FreeIds : \A j \in FreeIds : i <= j

InChannel(id) == \E i \in 1..Len(channel) : channel[i] = id

\* no call of the time resolver on its own is under way
NoCall ==
    [pc |-> "none", session |-> [kind |-> "refused", numeric |-> FALSE, ticks |-> 0],
     opened |-> FALSE, label |-> None]

\* fetch_status_message: the newest of the last `limit` messages whose
\* author is the bot, None when there is none
RECURSIVE ScanHistory(_, _, _)
ScanHistory(chan, i, left) ==
    IF i = 0 \/ left = 0 THEN NoMessage
    ELSE IF chan[i] # 0 THEN chan[i]
    ELSE ScanHistory(chan, i - 1, left - 1)

\* channel.history() without its limit: the whole channel is scanned
fetch_status_message_Unbounded(chan) == ScanHistory(chan, Len(chan), Len(chan))

fetch_status_message(chan) == ScanHistory(chan, Len(chan), HistoryLimit)

\* the channel histories a run starts from: empty, or a message of the bot
\* from an earlier run followed by HistoryLimit - 1 or HistoryLimit messages
\* of others
InitialHistories ==
    { <<>>, <<PriorMsg>> \o Others(HistoryLimit - 1),
      <<PriorMsg>> \o Others(HistoryLimit) }

Init ==
    /\ RCON_PASS \in Credentials
    /\ status_message = NoMessage
    /\ channel \in InitialHistories
    /\ priorRun = (channel # <<>>)
    /\ createdBy = [i \in MsgIds |-> IF i = PriorMsg /\ channel # <<>> THEN "earlier_run" ELSE "nobody"]
    /\ ready = FALSE
    /\ startPc = "idle"
    /\ tickPc = "stopped"
    /\ tickData = NoData
    /\ tickCalls = <<>>
    /\ tickStatus = NoStatus
    /\ tickMsg = NoText
    /\ tickTarget = NoMessage
    /\ tickAttempts = 0
    /\ tickResult = "none"
    /\ cmdPc = "idle"
    /\ cmdData = NoData
    /\ cmdCalls = <<>>
    /\ cmdStatus = NoStatus
    /\ cmdMsg = NoText
    /\ resolver = NoCall

\* ----------------------------------------------------------- the chat side
\* channel.send(text) succeeded: the platform appends a new message of the bot
Sent(id, by) ==
    /\ channel' = Append(channel, id)
    /\ createdBy' = [createdBy EXCEPT ![id] = by]

\* a moderator deletes the status message the bot holds
DeleteMessage ==
    /\ InChannel(status_message)
    /\ channel' = SelectSeq(channel, LAMBDA m : m # status_message)
    /\ UNCHANGED << RCON_PASS, resolver, status_message, createdBy, startVars,
                    tickPc, tickLocals, cmdVars, priorRun >>

\* ------------------------------------------------------ on_ready, start_bot
\* update_status.start(): RuntimeError (caught at line 184) when the loop's
\* task is still running, else the loop starts
StartLoop ==
    tickPc' = IF tickPc \in {"stopped", "crashed"} THEN "idle" ELSE tickPc

\* the gateway delivers a ready event, the first one or, after a reconnect,
\* another one; on_ready calls start_bot, which awaits bot.fetch_channel
OnReady ==
    /\ startPc = "idle"
    /\ ready' = TRUE
    /\ startPc' = "fetch_channel"
    /\ UNCHANGED << RCON_PASS, resolver, status_message, chatVars, tickPc, tickLocals,
                    cmdVars, priorRun >>

\* line 178 returns the channel; start_bot awaits the history scan
StartChannelFetched ==
    /\ startPc = "fetch_channel"
    /\ startPc' = "history"
    /\ UNCHANGED << RCON_PASS, resolver, status_message, chatVars, ready, tickPc,
                    tickLocals, cmdVars, priorRun >>

\* line 178, 179 or 181 raises: line 185 logs it and start_bot returns
StartFailed ==
    /\ startPc \in {"fetch_channel", "history", "send"}
    /\ startPc' = "idle"
    /\ UNCHANGED << RCON_PASS, resolver, status_message, chatVars, ready, tickPc,
                    tickLocals, cmdVars, priorRun >>

\* line 179 assigns the scan's result; a message was found: lines 182-183
StartHistoryFound ==
    /\ startPc = "history"
    /\ fetch_status_message(channel) # NoMessage
    /\ status_message' = fetch_status_message(channel)
    /\ StartLoop
    /\ startPc' = "idle"
    /\ UNCHANGED << RCON_PASS, resolver, chatVars, ready, tickLocals, cmdVars, priorRun >>

\* line 179 assigns None; line 181 awaits the placeholder's send
StartHistoryEmpty ==
    /\ startPc = "history"
    /\ fetch_status_message(channel) = NoMessage
    /\ status_message' = NoMessage
    /\ startPc' = "send"
    /\ UNCHANGED << RCON_PASS, resolver, chatVars, ready, tickPc, tickLocals, cmdVars,
                    priorRun >>

\* line 181 assigns the placeholder message; lines 182-183
StartPlaceholderSent ==
    /\ startPc = "send"
    /\ FreeIds # {}
    /\ Sent(NextId, "start_bot")
    /\ status_message' = NextId
    /\ StartLoop
    /\ startPc' = "idle"
    /\ UNCHANGED << RCON_PASS, resolver, ready, tickLocals, cmdVars, priorRun >>

\* ----------------------------------------------------- fetch_server_status
\* Each outcome is the snapshot returned and the cycle's log: the probes,
\* queries and failures of the cycle in the order they happened.

\* a missing early return: the probe returns False and the query runs anyway
ProbeDownOutcome_NoEarlyReturn ==
    [data |-> [Extract(CHOOSE r \in StatusReplies : TRUE,
                       CHOOSE q \in QueryReplies : q.players.present,
                       "secret",
                       CHOOSE x \in RconSessions : x.kind = "refused")
               EXCEPT !.host_is_up = FALSE],
     log |-> <<"probe_down", "status", "query", "time", "rcon_session">>]

\* lines 122-139: the probe returns False
ProbeDownOutcome ==
    [data |-> DefaultSnapshot(FALSE), log |-> <<"probe_down">>]

\* lines 141-143: the probe returns True, async_status is awaited
ProbeUpLog == <<"probe_up", "status">>

\* the except branch going on to line 152: the time is resolved although
\* the query failed
SubQueryFailedOutcome_StillResolvesTime(log, failure) ==
    [data |-> [DefaultSnapshot(TRUE) EXCEPT !.time_label = RCON_UNAVAILABLE],
     log |-> Append(log, failure) \o <<"time", "rcon_session">>]

\* line 143 or 144 raises: lines 154-166
SubQueryFailedOutcome(log, failure) ==
    [data |-> DefaultSnapshot(TRUE), log |-> Append(log, failure)]

\* both sub-queries answered: lines 146-166
ExtractOutcome(log, status, query, password, session) ==
    [data |-> Extract(status, query, password, session),
     log |-> IF ReachesTimeQuery(status, query)
             THEN log \o ExtractCalls(status, query, password, session)
             ELSE Append(log, "extract_failed")]

\* --------------------------------------------------- update_status, the loop
\* an iteration of the loop ends: the locals of update_status are gone
TickFinish(result) ==
    /\ tickPc' = "idle"
    /\ tickResult' = result
    /\ tickData' = NoData
    /\ tickCalls' = <<>>
    /\ tickStatus' = NoStatus
    /\ tickMsg' = NoText
    /\ tickTarget' = NoMessage
    /\ tickAttempts' = 0

\* lines 197-201 and 219-222: edit the held message, or send when none is held
TickPublish(text) ==
    /\ tickMsg' = text
    /\ tickAttempts' = tickAttempts + 1
    /\ tickTarget' = status_message
    /\ tickPc' = IF status_message # NoMessage THEN "edit" ELSE "send"

\* update_status without lines 195-204: the template is rendered whatever
\* the probe said
TickGotData_AlwaysTemplate(outcome) ==
    /\ tickData' = outcome.data
    /\ tickCalls' = outcome.log
    /\ tickStatus' = NoStatus
    /\ TickPublish(Render(outcome.data))

\* line 195 testing the game server as well: the banner is published
\* whenever the game server is not online
TickGotData_BannerWhenServerDown(outcome) ==
    /\ tickData' = outcome.data
    /\ tickCalls' = outcome.log
    /\ tickStatus' = NoStatus
    /\ IF ~outcome.data.host_is_up \/ outcome.data.mc_status = MC_OFFLINE
       THEN TickPublish(Fallback)
       ELSE TickPublish(Render(outcome.data))

\* update_status adding to the text whether it updates a message or posts one
TickGotData_TextNamesHandle(outcome) ==
    /\ tickData' = outcome.data
    /\ tickCalls' = outcome.log
    /\ tickStatus' = NoStatus
    /\ IF ~outcome.data.host_is_up
       THEN TickPublish(Fallback)
       ELSE TickPublish(Render(outcome.data) \o
                << <<IF status_message # NoMessage THEN "(updated)" ELSE "(new)">> >>)

\* the snapshot is returned to update_status and the locals of
\* fetch_server_status are gone: lines 195-222
TickGotData(outcome) ==
    /\ tickData' = outcome.data
    /\ tickCalls' = outcome.log
    /\ tickStatus' = NoStatus
    /\ IF ~outcome.data.host_is_up
       THEN TickPublish(Fallback)
       ELSE TickPublish(Render(outcome.data))

\* the timer fires: update_status awaits bot.fetch_channel (line 191)
TickStart ==
    /\ tickPc = "idle"
    /\ tickPc' = "fetch_channel"
    /\ tickResult' = "none"
    /\ UNCHANGED << RCON_PASS, resolver, status_message, chatVars, startVars, tickData,
                    tickCalls, tickStatus, tickMsg, tickTarget, tickAttempts, cmdVars,
                    priorRun >>

\* line 191 raises, outside every try: the exception leaves update_status.
\* tasks.loop runs the iteration again after a network error ("retried") and
\* ends the loop's task on any other exception ("fatal")
TickChannelFailed(kind) ==
    /\ tickPc = "fetch_channel"
    /\ tickPc' = IF kind = "fatal" THEN "crashed" ELSE "idle"
    /\ tickResult' = "escaped"
    /\ UNCHANGED << RCON_PASS, resolver, status_message, chatVars, startVars, tickData,
                    tickCalls, tickStatus, tickMsg, tickTarget, tickAttempts, cmdVars,
                    priorRun >>

\* lines 191-201: the channel is fetched, the probe fails, the fallback is published
TickProbeDown ==
    /\ tickPc = "fetch_channel"
    /\ TickGotData(ProbeDownOutcome)
    /\ UNCHANGED << RCON_PASS, resolver, status_message, chatVars, startVars,
                    tickResult, cmdVars, priorRun >>

\* lines 191, 122, 143: the channel is fetched, the probe succeeds
TickProbeUp ==
    /\ tickPc = "fetch_channel"
    /\ tickPc' = "status"
    /\ tickCalls' = ProbeUpLog
    /\ UNCHANGED << RCON_PASS, resolver, status_message, chatVars, startVars, tickData,
                    tickStatus, tickMsg, tickTarget, tickAttempts, tickResult, cmdVars,
                    priorRun >>

\* line 143 returns; async_query is awaited (line 144)
TickStatusDone(reply) ==
    /\ tickPc = "status"
    /\ tickPc' = "query"
    /\ tickStatus' = reply
    /\ tickCalls' = Append(tickCalls, "query")
    /\ UNCHANGED << RCON_PASS, resolver, status_message, chatVars, startVars, tickData,
                    tickMsg, tickTarget, tickAttempts, tickResult, cmdVars, priorRun >>

\* line 143 raises
TickStatusFailed ==
    /\ tickPc = "status"
    /\ TickGotData(SubQueryFailedOutcome(tickCalls, "status_failed"))
    /\ UNCHANGED << RCON_PASS, resolver, status_message, chatVars, startVars,
                    tickResult, cmdVars, priorRun >>

\* line 144 raises
TickQueryFailed ==
    /\ tickPc = "query"
    /\ TickGotData(SubQueryFailedOutcome(tickCalls, "query_failed"))
    /\ UNCHANGED << RCON_PASS, resolver, status_message, chatVars, startVars,
                    tickResult, cmdVars, priorRun >>

\* line 144 returns: lines 146-152 and the RCON session they open
TickQueryDone(reply, session) ==
    /\ tickPc = "query"
    /\ TickGotData(ExtractOutcome(tickCalls, tickStatus, reply, RCON_PASS, session))
    /\ UNCHANGED << RCON_PASS, resolver, status_message, chatVars, startVars,
                    tickResult, cmdVars, priorRun >>

\* line 199 or 220 returns: the platform replaced the message's text
TickEditDone ==
    /\ tickPc = "edit"
    /\ InChannel(tickTarget)
    /\ TickFinish("none")
    /\ UNCHANGED << RCON_PASS, resolver, status_message, chatVars, startVars, cmdVars,
                    priorRun >>

\* an except branch that forgets the message whose edit failed
TickEditFailed_DropsHandle ==
    /\ tickPc = "edit"
    /\ status_message' = NoMessage
    /\ TickFinish("edit_failed")
    /\ UNCHANGED << RCON_PASS, resolver, chatVars, startVars, cmdVars, priorRun >>

\* an except branch that sends a new message when the edit failed
TickEditFailed_SendsInstead ==
    /\ tickPc = "edit"
    /\ FreeIds # {}
    /\ Sent(NextId, "update_status")
    /\ status_message' = NextId
    /\ TickFinish("edit_failed")
    /\ UNCHANGED << RCON_PASS, resolver, startVars, cmdVars, priorRun >>

\* line 199 or 220 raises (the message is gone, or the platform refuses):
\* line 203 or 225 logs it
TickEditFailed ==
    /\ tickPc = "edit"
    /\ TickFinish("edit_failed")
    /\ UNCHANGED << RCON_PASS, resolver, status_message, chatVars, startVars, cmdVars,
                    priorRun >>

\* line 201 or 222 assigns the message sent
TickSendDone ==
    /\ tickPc = "send"
    /\ FreeIds # {}
    /\ Sent(NextId, "update_status")
    /\ status_message' = NextId
    /\ TickFinish("none")
    /\ UNCHANGED << RCON_PASS, resolver, startVars, cmdVars, priorRun >>

\* line 201 or 222 raises: line 203 or 225 logs it
TickSendFailed ==
    /\ tickPc = "send"
    /\ TickFinish("send_failed")
    /\ UNCHANGED << RCON_PASS, resolver, status_message, chatVars, startVars, cmdVars,
                    priorRun >>

\* ------------------------------------------------------------ manual_status
\* a command ends: the locals of manual_status are gone
CmdFinish ==
    /\ cmdPc' = "idle"
    /\ cmdData' = NoData
    /\ cmdCalls' = <<>>
    /\ cmdStatus' = NoStatus
    /\ cmdMsg' = NoText

\* manual_status publishing the way update_status does: an edit of the held
\* message when there is one
CmdGotData_EditOrCreate(outcome) ==
    /\ cmdData' = outcome.data
    /\ cmdCalls' = outcome.log
    /\ cmdStatus' = NoStatus
    /\ cmdMsg' = Render(outcome.data)
    /\ cmdPc' = IF status_message # NoMessage THEN "edit" ELSE "send"

\* the snapshot is returned to manual_status and the locals of
\* fetch_server_status are gone: lines 232-242
CmdGotData(outcome) ==
    /\ cmdData' = outcome.data
    /\ cmdCalls' = outcome.log
    /\ cmdStatus' = NoStatus
    /\ cmdMsg' = Render(outcome.data)
    /\ cmdPc' = "send"

\* a user sends !mcstatus; the probe fails
CmdProbeDown ==
    /\ cmdPc = "idle"
    /\ ready
    /\ CmdGotData(ProbeDownOutcome)
    /\ UNCHANGED << RCON_PASS, resolver, status_message, chatVars, startVars, tickPc,
                    tickLocals, priorRun >>

\* a user sends !mcstatus; the probe succeeds, async_status is awaited
CmdProbeUp ==
    /\ cmdPc = "idle"
    /\ ready
    /\ cmdPc' = "status"
    /\ cmdCalls' = ProbeUpLog
    /\ UNCHANGED << RCON_PASS, resolver, status_message, chatVars, startVars, tickPc,
                    tickLocals, cmdData, cmdStatus, cmdMsg, priorRun >>

\* line 143 returns; async_query is awaited
CmdStatusDone(reply) ==
    /\ cmdPc = "status"
    /\ cmdPc' = "query"
    /\ cmdStatus' = reply
    /\ cmdCalls' = Append(cmdCalls, "query")
    /\ UNCHANGED << RCON_PASS, resolver, status_message, chatVars, startVars, tickPc,
                    tickLocals, cmdData, cmdMsg, priorRun >>

\* line 143 raises
CmdStatusFailed ==
    /\ cmdPc = "status"
    /\ CmdGotData(SubQueryFailedOutcome(cmdCalls, "status_failed"))
    /\ UNCHANGED << RCON_PASS, resolver, status_message, chatVars, startVars, tickPc,
                    tickLocals, priorRun >>

\* line 144 raises
CmdQueryFailed ==
    /\ cmdPc = "query"
    /\ CmdGotData(SubQueryFailedOutcome(cmdCalls, "query_failed"))
    /\ UNCHANGED << RCON_PASS, resolver, status_message, chatVars, startVars, tickPc,
                    tickLocals, priorRun >>

\* line 144 returns: lines 146-152 and the RCON session they open
CmdQueryDone(reply, session) ==
    /\ cmdPc = "query"
    /\ CmdGotData(ExtractOutcome(cmdCalls, cmdStatus, reply, RCON_PASS, session))
    /\ UNCHANGED << RCON_PASS, resolver, status_message, chatVars, startVars, tickPc,
                    tickLocals, priorRun >>

\* line 242 returns: the reply is a new message of the bot in the channel
CmdSendDone ==
    /\ cmdPc = "send"
    /\ FreeIds # {}
    /\ Sent(NextId, "manual_status")
    /\ CmdFinish
    /\ UNCHANGED << RCON_PASS, resolver, status_message, startVars, tickPc, tickLocals,
                    priorRun >>

\* line 242 raises: the command framework logs the error
CmdSendFailed ==
    /\ cmdPc = "send"
    /\ CmdFinish
    /\ UNCHANGED << RCON_PASS, resolver, status_message, chatVars, startVars, tickPc,
                    tickLocals, priorRun >>

\* ------------------------------------------------------------ specification
StartNext ==
    \/ OnReady
    \/ StartChannelFetched
    \/ StartFailed
    \/ StartHistoryFound
    \/ StartHistoryEmpty
    \/ StartPlaceholderSent

TickNext ==
    \/ TickStart
    \/ \E kind \in {"retried", "fatal"} : TickChannelFailed(kind)
    \/ TickProbeDown
    \/ TickProbeUp
    \/ \E reply \in StatusReplies : TickStatusDone(reply)
    \/ TickStatusFailed
    \/ TickQueryFailed
    \/ \E reply \in QueryReplies, session \in RconSessions : TickQueryDone(reply, session)
    \/ TickEditDone
    \/ TickEditFailed
    \/ TickSendDone
    \/ TickSendFailed

CmdNext ==
    \/ CmdProbeDown
    \/ CmdProbeUp
    \/ \E reply \in StatusReplies : CmdStatusDone(reply)
    \/ CmdStatusFailed
    \/ CmdQueryFailed
    \/ \E reply \in QueryReplies, session \in RconSessions : CmdQueryDone(reply, session)
    \/ CmdSendDone
    \/ CmdSendFailed

EnvNext ==
    DeleteMessage

Next == StartNext \/ TickNext \/ CmdNext \/ EnvNext

Spec == Init /\ [][Next]_vars

\* The timer of tasks.loop fires again after every iteration and every
\* awaited call of update_status returns or raises within its timeout.
FairSpec == Spec /\ WF_vars(TickNext)

\* ------------------------------------------- the time resolver on its own
\* get_time_of_day_via_rcon is about to be called with the credential the
\* process was started with, against any session; nothing else runs
ResolverInit ==
    /\ RCON_PASS \in ResolverCredentials
    /\ resolver \in { [pc |-> "call", session |-> s, opened |-> FALSE, label |-> None] :
                          s \in ResolverSessions }
    /\ status_message = NoMessage
    /\ channel = <<>>
    /\ priorRun = FALSE
    /\ createdBy = [i \in MsgIds |-> "nobody"]
    /\ ready = FALSE
    /\ startPc = "idle"
    /\ tickPc = "stopped"
    /\ tickData = NoData
    /\ tickCalls = <<>>
    /\ tickStatus = NoStatus
    /\ tickMsg = NoText
    /\ tickTarget = NoMessage
    /\ tickAttempts = 0
    /\ tickResult = "none"
    /\ cmdPc = "idle"
    /\ cmdData = NoData
    /\ cmdCalls = <<>>
    /\ cmdStatus = NoStatus
    /\ cmdMsg = NoText

\* lines 49-69: the call returns its label
ResolverCall ==
    /\ resolver.pc = "call"
    /\ resolver' = [resolver EXCEPT
                       !.pc = "returned",
                       !.opened = OpensRconSession(RCON_PASS),
                       !.label = get_time_of_day_via_rcon(RCON_PASS, resolver.session)]
    /\ UNCHANGED << RCON_PASS, status_message, chatVars, startVars, tickPc,
                    tickLocals, cmdVars, priorRun >>

ResolverNext == ResolverCall

ResolverSpec == ResolverInit /\ [][ResolverNext]_vars

\* ------------------------------------------------------------------ claims
\* the states in which a cycle holds the snapshot it fetched
TickHasData == tickPc \in {"edit", "send"}
CmdHasData == cmdPc = "send"

Failures == {"status_failed", "query_failed", "extract_failed"}
Failed(log) == \E i \in 1..Len(log) : log[i] \in Failures
Called(log, call) == \E i \in 1..Len(log) : log[i] = call

\* the snapshot with host_up = false and everything else absent
HostDownSnapshot ==
    [ host_is_up |-> FALSE, mc_status |-> MC_OFFLINE, motd |-> None,
      time_label |-> None, game_mode |-> None, map_name |-> None,
      players |-> <<"None">>, player_list |-> <<>> ]

\* the snapshot of a reachable host whose game server gave nothing
ServerOfflineSnapshot == [HostDownSnapshot EXCEPT !.host_is_up = TRUE]

ProbeWasDown(log) == log # <<>> /\ log[1] = "probe_down"
ProbeWasUp(log) == log # <<>> /\ log[1] = "probe_up"

\* C1: in a cycle whose probe returned false the snapshot is the host-down
\* snapshot (game server offline, no motd, time, game mode or map, no
\* players) and the cycle made no call but the probe: neither the
\* game-server query nor the time resolver ran.
C1_HostDownSnapshotIsBare ==
    /\ (TickHasData /\ ProbeWasDown(tickCalls)) =>
           (tickData = HostDownSnapshot /\ tickCalls = <<"probe_down">>)
    /\ (CmdHasData /\ ProbeWasDown(cmdCalls)) =>
           (cmdData = HostDownSnapshot /\ cmdCalls = <<"probe_down">>)

\* a command's cycle finds the host down while the tick in flight holds a
\* snapshot of an online server
C1_Witness ==
    /\ CmdHasData /\ ProbeWasDown(cmdCalls)
    /\ TickHasData /\ tickData.mc_status = MC_ONLINE

\* C2 as claimed: in a cycle whose probe returned true both the game-server
\* query and the time resolver are called, the query first, whether or not the
\* query failed.
C2_BothAlwaysAttempted ==
    /\ (TickHasData /\ ProbeWasUp(tickCalls)) =>
           (Called(tickCalls, "status") /\ Called(tickCalls, "time"))
    /\ (CmdHasData /\ ProbeWasUp(cmdCalls)) =>
           (Called(cmdCalls, "status") /\ Called(cmdCalls, "time"))

TimeOnlyAfterQuery(log) ==
    /\ log[2] = "status"
    /\ Called(log, "time") <=> ~Failed(log)
    /\ Called(log, "time") =>
           (Len(log) >= 4 /\ log[3] = "query" /\ log[4] = "time")

\* C2 amended: in a cycle whose probe returned true the game-server query is
\* attempted first, and the time resolver is called exactly when the whole
\* query step succeeded, after it; a failure of the query step prevents the
\* call of the time resolver in that cycle.
C2_TimeOnlyAfterQuerySucceeded ==
    /\ (TickHasData /\ ProbeWasUp(tickCalls)) => TimeOnlyAfterQuery(tickCalls)
    /\ (CmdHasData /\ ProbeWasUp(cmdCalls)) => TimeOnlyAfterQuery(cmdCalls)

\* a tick whose status sub-query failed holds its snapshot: the time resolver
\* was not called
C2_Witness ==
    /\ TickHasData
    /\ tickCalls = <<"probe_up", "status", "status_failed">>

\* C3: whenever the query step of a cycle failed (a sub-query, or the
\* extraction of a field) the snapshot has the game server offline and every
\* game-server field absent.
C3_QueryAllOrNothing ==
    /\ (TickHasData /\ Failed(tickCalls)) => tickData = ServerOfflineSnapshot
    /\ (CmdHasData /\ Failed(cmdCalls)) => cmdData = ServerOfflineSnapshot

\* C4 as claimed: with the host down the tick and the command both publish
\* the fixed host-down banner.
C4_BannerOnBothPaths ==
    /\ (TickHasData /\ ProbeWasDown(tickCalls)) => tickMsg = Fallback
    /\ (CmdHasData /\ ProbeWasDown(cmdCalls)) => cmdMsg = Fallback

\* C4 amended: with the host down the scheduled tick publishes the fixed
\* host-down banner; the on-demand command publishes the full template, with
\* the game server and the host marked offline, and never the banner.
C4_BannerOnScheduledPathOnly ==
    /\ (TickHasData /\ ProbeWasDown(tickCalls)) => tickMsg = Fallback
    /\ (CmdHasData /\ ProbeWasDown(cmdCalls)) =>
           /\ cmdMsg # Fallback
           /\ Len(cmdMsg) = 10
           /\ cmdMsg[1] = <<"# **Server Stats**">>
           /\ cmdMsg[4] = <<"> ", MC_OFFLINE>>
           /\ cmdMsg[5] = <<"> Version: ", MC_VERSION>>
           /\ cmdMsg[8] = <<"> ", "(red) Offline">>

\* a tick and a command are both about to publish with the host down
C4_Witness ==
    /\ TickHasData /\ ProbeWasDown(tickCalls)
    /\ CmdHasData /\ ProbeWasDown(cmdCalls)

TickCreatedHandle ==
    status_message \in NewIds /\ createdBy[status_message] = "update_status"

C7_NoFailureEscapesTick ==
    /\ tickResult # "escaped"
    /\ tickPc # "crashed"

StartCreated == { id \in NewIds : createdBy[id] = "start_bot" }
TickCreated == { id \in NewIds : createdBy[id] = "update_status" }

\* C8: in a run that began with no message of the bot in the channel, startup
\* creates one message only, the scheduled path creates none, and the handle,
\* once set, never changes.
C8_FirstRunKeepsOneMessage ==
    [][ ~priorRun =>
            /\ (status_message # NoMessage => status_message' = status_message)
            /\ Cardinality(StartCreated') <= 1
            /\ TickCreated' = {} ]_vars

\* C9: once startup has resolved the handle and started the loop, the handle
\* is assigned by the scheduled tick only (the message the tick sent): no
\* other coroutine re-resolves, clears or replaces it.
C9_ResolvedOnceSingleWriter ==
    [][ (tickPc # "stopped" /\ status_message' # status_message)
            => (tickPc = "send" /\ tickPc' = "idle") ]_vars

\* C10: no step of the on-demand command changes the handle, whatever the
\* tick and start_bot are doing; the command never has an edit pending, and
\* when its send succeeds the channel gains one new message, which is not the
\* handle.
C10_CommandLeavesHandle ==
    [][ cmdVars' # cmdVars =>
            /\ status_message' = status_message
            /\ cmdPc' \in {"idle", "status", "query", "send"}
            /\ (channel' # channel =>
                   \E id \in FreeIds :
                       /\ channel' = Append(channel, id)
                       /\ createdBy' = [createdBy EXCEPT ![id] = "manual_status"]
                       /\ id # status_message') ]_vars

\* a command has replied while a tick has an edit of the held message pending
C10_Witness ==
    /\ \E id \in NewIds : createdBy[id] = "manual_status" /\ InChannel(id)
    /\ tickPc = "edit"
    /\ tickTarget = status_message
    /\ cmdPc = "idle"

\* the four periods of a day of 24000 ticks, 6000 ticks each
Periods == <<"Morning", "Midday", "Evening", "Night">>
Period(t) == Periods[(t \div 6000) + 1]

\* a call of the time resolver has returned after the session answered
\* with a tick count
ResolvedTicks ==
    /\ resolver.pc = "returned"
    /\ RCON_PASS # ""
    /\ resolver.session.kind = "reply"
    /\ resolver.session.numeric

\* C11: the time resolver maps a tick count t with 0 <= t < 24000 to the
\* period t falls in, lower bounds inclusive: [0,6000) Morning, [6000,12000)
\* Midday, [12000,18000) Evening, [18000,24000) Night; 0, 6000, 12000, 18000
\* and 23999 give Morning, Midday, Evening, Night and Night.
C11_TicksToPeriod ==
    LET t == resolver.session.ticks
        label == resolver.label
    IN  (ResolvedTicks /\ 0 <= t /\ t < 24000) =>
            /\ label = Period(t)
            /\ (t = 0 => label = "Morning")
            /\ (t = 6000 => label = "Midday")
            /\ (t = 12000 => label = "Evening")
            /\ (t = 18000 => label = "Night")
            /\ (t = 23999 => label = "Night")

\* the resolver has returned for the first tick of the second period
C11_Witness ==
    /\ ResolvedTicks
    /\ resolver.session.ticks = 6000
    /\ resolver.label = "Midday"

\* C12: a tick count below 0 or of 24000 and more makes the time resolver
\* return the "unavailable" sentinel, never a period.
C12_OutOfRangeUnavailable ==
    LET t == resolver.session.ticks
    IN  (ResolvedTicks /\ (t < 0 \/ t >= 24000)) =>
            resolver.label = RCON_UNAVAILABLE

\* C14: with an empty or unset credential the time resolver returns the
\* "not configured" sentinel and opens no session, whatever the session would
\* have done (refused, timed out, rejected, answered); it does not return the
\* "unavailable" sentinel.
C14_NoCredentialNotConfigured ==
    (resolver.pc = "returned" /\ RCON_PASS = "") =>
        /\ resolver.label = RCON_NOT_CONFIGURED
        /\ resolver.label # RCON_UNAVAILABLE
        /\ ~resolver.opened

\* the resolver has returned without a credential where the RCON port would
\* have timed out
C14_Witness ==
    /\ resolver.pc = "returned"
    /\ RCON_PASS = ""
    /\ resolver.session.kind = "timeout"
    /\ resolver.label = RCON_NOT_CONFIGURED

\* how often a call or failure is in a cycle's log
Count(log, entry) == Cardinality({ i \in 1..Len(log) : log[i] = entry })

\* the snapshot of a cycle whose sub-queries answered and whose RCON session
\* failed: the game server online, every field the replies carry, and the
\* "unavailable" sentinel for the time
RconFailedSnapshot(data) ==
    \E st \in StatusReplies, q \in QueryReplies :
        /\ q.players.present
        /\ data = [ host_is_up |-> TRUE,
                    mc_status |-> MC_ONLINE,
                    motd |-> q.motd,
                    time_label |-> RCON_UNAVAILABLE,
                    game_mode |-> q.software.gamemode,
                    map_name |-> q.map_name,
                    players |-> <<Str(st.players.online), "/", Str(st.players.max)>>,
                    player_list |-> q.players.list ]

RconFailureIsolated(log, data) ==
    /\ ~Failed(log)
    /\ Count(log, "time") = 1
    /\ Count(log, "rcon_session") = 1
    /\ RconFailedSnapshot(data)

\* C13: in a cycle whose game-server query succeeded and whose RCON session
\* failed (connection refused, login rejected, or an answer that is no
\* number) the cycle goes on to return its snapshot: the time resolver was
\* called once and opened one session, the time label is the "unavailable"
\* sentinel, the game server is marked online and players, player list, motd,
\* map and game mode are the ones the query returned.
C13_RconFailureIsolated ==
    /\ (TickHasData /\ Called(tickCalls, "rcon_failed")) =>
           RconFailureIsolated(tickCalls, tickData)
    /\ (CmdHasData /\ Called(cmdCalls, "rcon_failed")) =>
           RconFailureIsolated(cmdCalls, cmdData)

\* a tick is about to publish the snapshot of a cycle whose RCON session
\* failed: the template with the player list and the sentinel
C13_Witness ==
    /\ TickHasData
    /\ Called(tickCalls, "rcon_failed")
    /\ tickMsg[6] = <<"> Online Players: ", "Alice">>
    /\ tickMsg[8] = <<"> Time of Day: ", RCON_UNAVAILABLE>>

\* C15: a scheduled tick whose probe succeeded and whose game-server query
\* failed publishes the template, with the host block marked online, and not
\* the host-down banner; its text differs from both texts published for a
\* host that is down (the tick's banner and the command's template).
C15_QueryFailureGetsTemplate ==
    (TickHasData /\ ProbeWasUp(tickCalls) /\ Failed(tickCalls)) =>
        /\ tickMsg # Fallback
        /\ tickMsg # Render(HostDownSnapshot)
        /\ Len(tickMsg) >= 10
        /\ tickMsg[1] = <<"# **Server Stats**">>
        /\ tickMsg[3] = <<"> **Minecraft Server**:">>
        /\ tickMsg[Len(tickMsg) - 3] = <<"> **Host Server**:">>
        /\ tickMsg[Len(tickMsg) - 2] = <<"> ", "(green) Online">>

\* a tick whose query sub-query failed has the edit of the held message pending
C15_Witness ==
    /\ tickPc = "edit"
    /\ tickCalls = <<"probe_up", "status", "query", "query_failed">>
    /\ tickMsg[4] = <<"> ", MC_OFFLINE>>

\* the first pieces of the lines of the game-server block besides the status
\* and the version
GameLines ==
    { "> Players: ", "> Online Players: ", "> MOTD: ", "> Time of Day: ",
      "> Map: ", "> Game Mode: " }

\* the report of a host that is down: the game-server block is the status
\* line and the version, the host block has the offline marker
HostDownReport(text) ==
    /\ Len(text) = 10
    /\ text[3] = <<"> **Minecraft Server**:">>
    /\ text[4] = <<"> ", MC_OFFLINE>>
    /\ text[5] = <<"> Version: ", MC_VERSION>>
    /\ text[6] = <<"">>
    /\ text[7] = <<"> **Host Server**:">>
    /\ text[8] = <<"> ", "(red) Offline">>
    /\ \A i \in 1..Len(text) : text[i][1] \notin GameLines

\* C16: for every snapshot with host_up = false that a cycle returns,
\* format_status gives a report with the offline marker in the host block
\* and, in the game-server block, the status line and the version only: no
\* players, online players, MOTD, time of day, map or game mode line. The
\* on-demand command publishes that report.
C16_HostDownReportIsBare ==
    /\ (TickHasData /\ ~tickData.host_is_up) => HostDownReport(Render(tickData))
    /\ (CmdHasData /\ ~cmdData.host_is_up) =>
           (HostDownReport(Render(cmdData)) /\ cmdMsg = Render(cmdData))

\* a command is about to send the report of a host that is down
C16_Witness ==
    /\ cmdPc = "send"
    /\ ~cmdData.host_is_up
    /\ cmdMsg[8] = <<"> ", "(red) Offline">>

\* C19 as claimed: two cycles with the same snapshot, scheduled or on-demand,
\* publish the same text.
C19_SameSnapshotSameText ==
    (TickHasData /\ CmdHasData /\ tickData = cmdData) => tickMsg = cmdMsg

\* the text the scheduled path publishes for a snapshot
TickText(data) == IF data.host_is_up THEN Render(data) ELSE Fallback

\* C19 amended: the published text is a function of the cycle's snapshot and
\* of the path that publishes it: the command publishes the rendered
\* snapshot, the tick the rendered snapshot of a reachable host and the
\* banner otherwise, whatever the handle, the attempts made and the earlier
\* cycles were; a tick and a command with the same snapshot of a reachable
\* host publish the same text.
C19_TextFromSnapshotAndPath ==
    /\ TickHasData => tickMsg = TickText(tickData)
    /\ CmdHasData => cmdMsg = Render(cmdData)
    /\ (TickHasData /\ CmdHasData /\ tickData = cmdData /\ tickData.host_is_up) =>
           tickMsg = cmdMsg

\* a tick that edits the held message and a command that sends a new one
\* hold the same snapshot of an online server
C19_Witness ==
    /\ tickPc = "edit"
    /\ cmdPc = "send"
    /\ tickData = cmdData
    /\ tickData.mc_status = MC_ONLINE
    /\ tickMsg = cmdMsg

\* the most recent message of the bot among the 20 most recent messages of
\* a channel, NoMessage when none of them is the bot's
OwnRecent(chan) == { i \in 1..Len(chan) : i > Len(chan) - 20 /\ chan[i] # 0 }
LastOwn(chan) ==
    IF OwnRecent(chan) = {} THEN NoMessage
    ELSE chan[CHOOSE i \in OwnRecent(chan) : \A j \in OwnRecent(chan) : j <= i]

\* C17: startup starts the loop only with a handle that is a message of the
\* channel: the most recent message of the bot among the 20 most recent
\* ones when there is one, and then nothing is posted; otherwise the one
\* placeholder that startup posted, after a scan that found none. Startup
\* posts a message in no other step, and sets the handle to no other message.
C17_StartupResolvesHandle ==
    [][ /\ (tickPc = "stopped" /\ tickPc' # "stopped") =>
               /\ startPc \in {"history", "send"}
               /\ status_message' # NoMessage
               /\ \E i \in 1..Len(channel') : channel'[i] = status_message'
               /\ startPc = "history" =>
                      /\ LastOwn(channel) # NoMessage
                      /\ status_message' = LastOwn(channel)
                      /\ chatVars' = chatVars
               /\ startPc = "send" =>
                      /\ status_message' \in FreeIds
                      /\ channel' = Append(channel, status_message')
                      /\ createdBy' = [createdBy EXCEPT ![status_message'] = "start_bot"]
        /\ (startPc = "history" /\ startPc' = "send") =>
               /\ LastOwn(channel) = NoMessage
               /\ status_message' = NoMessage
               /\ chatVars' = chatVars
        /\ (startPc = "history" /\ startPc' # "history"
               /\ status_message' # status_message) =>
               status_message' = LastOwn(channel)
        /\ (\E id \in NewIds : createdBy[id] # "start_bot" /\ createdBy'[id] = "start_bot") =>
               /\ startPc = "send"
               /\ channel' = Append(channel, status_message')
               /\ Cardinality(StartCreated') = Cardinality(StartCreated) + 1 ]_vars

\* the bot's message of an earlier run is the 21st most recent one: startup
\* has posted a placeholder, which is the handle, and started the loop
C17_Witness ==
    /\ priorRun
    /\ InChannel(PriorMsg)
    /\ status_message \in NewIds
    /\ createdBy[status_message] = "start_bot"
    /\ tickPc = "idle"

\* C18: after a startup that failed (with the loop not started) the loop is
\* never started: no scheduled tick runs, and nothing is published by one.
C18_FailedStartupNeverPublishes ==
    [](  (ready /\ startPc = "idle" /\ tickPc = "stopped")
         => [](tickPc = "stopped") )

====
